---- MODULE Spec2Model ----
(***************************************************************************)
(* Model of the supply-chain toy project: the Node MDP state machine       *)
(* (node.py), the replenishment policies (policy.py) and the episode       *)
(* simulator (main.py).                                                    *)
(***************************************************************************)
EXTENDS Integers, Sequences, FiniteSets, TLC

(***************************************************************************)
(* Bounds of the model                                                     *)
(***************************************************************************)
MaxCap == 2        \* largest node capacity of the node state machine
MaxBack == 2       \* backorders are capped here by the guards
MaxTime == 3       \* largest remaining_time
MaxDemand == 2     \* largest demand of one event
MaxAction == 3     \* largest order amount of one action
MaxParam == 3      \* largest policy parameter tried
MaxPending == 2    \* longest pending-order queue given to a policy
MaxQty == 2        \* largest quantity of one pending order
Horizon == 3       \* periods of one episode
MaxFinalDemand == 1  \* largest final-product demand drawn in a period
MaxExternal == 1   \* largest external demand drawn for a raw node
EpCap == 2         \* capacity of the nodes of the simulated network

Min(a, b) == IF a <= b THEN a ELSE b
Max(a, b) == IF a >= b THEN a ELSE b

(***************************************************************************)
(* node.py: StateCategory and Node                                         *)
(***************************************************************************)
AWAIT_EVENT == "AWAIT_EVENT"
AWAIT_ACTION == "AWAIT_ACTION"
FINAL == "FINAL"
StateCategory == {AWAIT_EVENT, AWAIT_ACTION, FINAL}

UnitCost == 1      \* cost += 1.0 * order_qty

MaxLeadTime == 3   \* lead_time = np.random.randint(1, 4)

VARIABLES
  node,      \* the Node under test: capacity and the four MDP state fields
  lastOp,    \* the last call made on the node
  lastArg,   \* its argument(s)
  outcome,   \* "ok", or the exception the call raised
  cost,      \* value returned by the last modify_state_with_action
  hist,      \* history since the node last started in AWAIT_EVENT
  pcase,     \* policy call: the bound node, the policy and the pending orders
  decision,  \* what decide_order_quantity returned for pcase, once called
  cfg,       \* simulate_episode: horizon, assembly_requirement, bound policies
  nodes,     \* simulate_episode: the nodes of the network, by id
  node_orders,  \* pending orders per node: (quantity, remaining lead time)
  t,         \* the period of the loop
  pc,        \* position in the period: arrive, produce, demand, order, update
  cur,       \* the raw-material node the step-3 loop is at
  final_demand, \* the local final_demand, Unbound until step 2 assigns it
  err,       \* the exception that ended the episode, if any
  order_meta,  \* per pending order: the period it was placed in, its lead time
  credited   \* the orders the arrival step just taken credited, and its period

nodeVars == <<node, lastOp, lastArg, outcome, cost, hist>>
policyVars == <<pcase, decision>>
episodeVars ==
  <<cfg, nodes, node_orders, t, pc, cur, final_demand, err, order_meta, credited>>
vars == <<nodeVars, policyVars, episodeVars>>

\* Node.__post_init__: the assertions a constructed node has passed
PostInit(n) ==
  /\ 0 <= n.inventory /\ n.inventory <= n.capacity
  /\ n.backorders >= 0
  /\ n.remaining_time >= 0

SetStateValid_NoTime(n, inventory, backorders, remaining_time) ==
  /\ 0 <= inventory /\ inventory <= n.capacity
  /\ backorders >= 0

\* preconditions asserted by Node.set_state
SetStateValid(n, inventory, backorders, remaining_time) ==
  /\ 0 <= inventory /\ inventory <= n.capacity
  /\ backorders >= 0
  /\ remaining_time >= 0

\* Node.set_state: the node after the call (unchanged when an assert fails)
SetState(n, inventory, backorders, remaining_time, category) ==
  IF SetStateValid(n, inventory, backorders, remaining_time)
  THEN [n EXCEPT !.inventory = inventory, !.backorders = backorders,
                 !.remaining_time = remaining_time, !.category = category]
  ELSE n

\* category chosen by modify_state_with_event from the new remaining_time
EventCategory(remaining_time) ==
  IF remaining_time <= 0 THEN FINAL ELSE AWAIT_ACTION

EventValid_NotAction(n) == n.category # AWAIT_ACTION

\* precondition asserted by Node.modify_state_with_event
EventValid(n) == n.category = AWAIT_EVENT

EventFulfilled_NoMin(n, demand) == demand

\* fulfilled = min(demand, self.inventory)
EventFulfilled(n, demand) == Min(demand, n.inventory)

\* Node.modify_state_with_event: the node after the call
ModifyStateWithEvent(n, demand) ==
  IF ~EventValid(n) THEN n
  ELSE LET fulfilled == EventFulfilled(n, demand)
           rt == n.remaining_time - 1
       IN [n EXCEPT !.inventory = n.inventory - fulfilled,
                    !.backorders = n.backorders + (demand - fulfilled),
                    !.remaining_time = rt,
                    !.category = EventCategory(rt)]

\* preconditions asserted by Node.modify_state_with_action
ActionValid(n) == n.category = AWAIT_ACTION /\ n.remaining_time > 0

ActionOrderQty_NoCap(n, action) == IF action > 0 THEN action ELSE 0

\* order_qty = min(action, capacity - inventory), only when action > 0
ActionOrderQty(n, action) ==
  IF action > 0 THEN Min(action, n.capacity - n.inventory) ELSE 0

ActionCategory_NeverFinal(remaining_time) == AWAIT_EVENT

\* category chosen by modify_state_with_action from the new remaining_time
ActionCategory(remaining_time) ==
  IF remaining_time <= 0 THEN FINAL ELSE AWAIT_EVENT

\* Node.modify_state_with_action: the node after the call
ModifyStateWithAction(n, action) ==
  IF ~ActionValid(n) THEN n
  ELSE LET rt == n.remaining_time - 1
       IN [n EXCEPT !.inventory = n.inventory + ActionOrderQty(n, action),
                    !.remaining_time = rt,
                    !.category = ActionCategory(rt)]

\* the cost modify_state_with_action returns
ActionCost(n, action) == UnitCost * ActionOrderQty(n, action)

(***************************************************************************)
(* policy.py: the replenishment policies                                   *)
(***************************************************************************)
RECURSIVE SumQty(_)
\* sum(qty for qty, _ in pending_orders)
SumQty(pending) ==
  IF pending = <<>> THEN 0 ELSE Head(pending)[1] + SumQty(Tail(pending))

BaseStockDecide_CapNetOfPending(n, p, pending) ==
  LET total_pending == SumQty(pending)
      base_stock_level == p.target_inventory + p.safety_stock
      order_quantity == Max(0, base_stock_level - (n.inventory + total_pending))
  IN Min(order_quantity, n.capacity - n.inventory - total_pending)

\* BaseStockPolicy.decide_order_quantity
BaseStockDecide(n, p, pending) ==
  LET total_pending == SumQty(pending)
      base_stock_level == p.target_inventory + p.safety_stock
      order_quantity == Max(0, base_stock_level - (n.inventory + total_pending))
  IN Min(order_quantity, n.capacity - n.inventory)

MinMaxDecide_NoDeadZone(n, p, pending) ==
  LET total_pending == SumQty(pending)
      inventory_position == n.inventory + total_pending
  IN IF inventory_position >= p.max_inventory THEN 0
     ELSE Min(p.max_inventory - inventory_position,
              n.capacity - n.inventory - total_pending)

\* MinMaxPolicy.decide_order_quantity
MinMaxDecide(n, p, pending) ==
  LET total_pending == SumQty(pending)
      inventory_position == n.inventory + total_pending
  IN IF inventory_position >= p.max_inventory THEN 0
     ELSE IF inventory_position < p.min_inventory
          THEN Min(p.max_inventory - inventory_position,
                   n.capacity - n.inventory - total_pending)
          ELSE 0

FixedOrderDecide_IgnorePending(n, p, pending) ==
  Min(p.order_quantity, Max(0, n.capacity - n.inventory))

\* FixedOrderPolicy.decide_order_quantity
FixedOrderDecide(n, p, pending) ==
  LET inventory_position == n.inventory + SumQty(pending)
      available_capacity == n.capacity - inventory_position
  IN Min(p.order_quantity, Max(0, available_capacity))

\* node.policy.decide_order_quantity(pending): dispatch on the policy's class
DecideOrderQuantity(n, p, pending) ==
  CASE p.kind = "BaseStock" -> BaseStockDecide(n, p, pending)
    [] p.kind = "MinMax" -> MinMaxDecide(n, p, pending)
    [] p.kind = "FixedOrder" -> FixedOrderDecide(n, p, pending)

(***************************************************************************)
(* The policies as functions: one call of decide_order_quantity on each    *)
(* bound node, parameter setting and pending-order queue                   *)
(***************************************************************************)
\* pending-order queues: (quantity, remaining lead time), quantities positive
Orders == (1..MaxQty) \X {1, MaxLeadTime}
PendingQueues == UNION { [1..k -> Orders] : k \in 0..MaxPending }

\* the node fields a policy reads
PolicyNodes ==
  { n \in [capacity : 1..MaxCap, inventory : 0..MaxCap] :
      n.inventory <= n.capacity }

BaseStockParams ==
  [kind : {"BaseStock"}, target_inventory : 0..MaxParam, safety_stock : 0..1]
MinMaxParams ==
  [kind : {"MinMax"}, min_inventory : 0..MaxParam, max_inventory : 0..MaxParam]
FixedOrderParams ==
  [kind : {"FixedOrder"}, order_quantity : 0..MaxParam]

\* the worked examples of the policies
ExampleBaseStock ==
  [node |-> [capacity |-> 100, inventory |-> 40],
   policy |-> [kind |-> "BaseStock", target_inventory |-> 50, safety_stock |-> 10],
   pending |-> <<>>]
ExampleMinMaxBelow ==
  [node |-> [capacity |-> 100, inventory |-> 15],
   policy |-> [kind |-> "MinMax", min_inventory |-> 20, max_inventory |-> 80],
   pending |-> <<>>]
ExampleMinMaxInside ==
  [node |-> [capacity |-> 100, inventory |-> 50],
   policy |-> [kind |-> "MinMax", min_inventory |-> 20, max_inventory |-> 80],
   pending |-> <<>>]
ExampleFixedOrder ==
  [node |-> [capacity |-> 100, inventory |-> 90],
   policy |-> [kind |-> "FixedOrder", order_quantity |-> 30],
   pending |-> <<<<5, 2>>>>]

PolicyCases ==
  [node : PolicyNodes,
   policy : BaseStockParams \cup MinMaxParams \cup FixedOrderParams,
   pending : PendingQueues]
  \cup {ExampleBaseStock, ExampleMinMaxBelow, ExampleMinMaxInside,
        ExampleFixedOrder}

NotCalled == [called |-> FALSE, q |-> 0]

PolicyIdle == pcase = ExampleBaseStock /\ decision = NotCalled

(***************************************************************************)
(* main.py: the variables of simulate_episode before an episode            *)
(***************************************************************************)
\* a local that has not been assigned; an assigned local is <<value>>
Unbound == <<>>
NoError == "none"

\* no arrival step has just been taken
NoneCredited == [at |-> -1, by |-> <<>>]

EpisodeIdle ==
  /\ cfg = [horizon |-> 0]
  /\ nodes = <<>>
  /\ node_orders = <<>>
  /\ t = 0 /\ pc = "idle" /\ cur = 0
  /\ final_demand = Unbound
  /\ err = NoError
  /\ order_meta = <<>>
  /\ credited = NoneCredited

(***************************************************************************)
(* The node state machine: one Node, called with events, actions and       *)
(* set_state in any order                                                  *)
(***************************************************************************)
NoHist == [valid |-> FALSE, n |-> 0, ops |-> 0, last |-> "none"]

\* history of a node that has just been put in state (remaining_time, category)
StartHist(remaining_time, category) ==
  IF category = AWAIT_EVENT /\ remaining_time >= 1
  THEN [valid |-> TRUE, n |-> remaining_time, ops |-> 0, last |-> "none"]
  ELSE NoHist

\* history after one more successful event or action
StepHist(h, op) ==
  IF h.valid THEN [h EXCEPT !.ops = h.ops + 1, !.last = op] ELSE h

\* every node the constructor accepts
ValidNodes ==
  { n \in [capacity : 1..MaxCap, inventory : 0..MaxCap, backorders : 0..MaxBack,
           remaining_time : 0..MaxTime, category : StateCategory] : PostInit(n) }

NodeInit ==
  /\ PolicyIdle /\ EpisodeIdle
  /\ node \in ValidNodes
  /\ lastOp = "init"
  /\ lastArg = <<>>
  /\ outcome = "ok"
  /\ cost = 0
  /\ hist = StartHist(node.remaining_time, node.category)

\* a call of node.modify_state_with_event(rng, demand)
Event ==
  \E demand \in 0..MaxDemand :
    /\ ModifyStateWithEvent(node, demand).backorders <= MaxBack
    /\ node' = ModifyStateWithEvent(node, demand)
    /\ lastOp' = "event"
    /\ lastArg' = <<demand>>
    /\ outcome' = IF EventValid(node) THEN "ok" ELSE "AssertionError"
    /\ cost' = 0
    /\ hist' = IF EventValid(node) THEN StepHist(hist, "event") ELSE hist
    /\ UNCHANGED <<policyVars, episodeVars>>

\* a call of node.modify_state_with_action(action)
Action ==
  \E action \in (-1)..MaxAction :
    /\ node' = ModifyStateWithAction(node, action)
    /\ lastOp' = "action"
    /\ lastArg' = <<action>>
    /\ outcome' = IF ActionValid(node) THEN "ok" ELSE "AssertionError"
    /\ cost' = IF ActionValid(node) THEN ActionCost(node, action) ELSE 0
    /\ hist' = IF ActionValid(node) THEN StepHist(hist, "action") ELSE hist
    /\ UNCHANGED <<policyVars, episodeVars>>

\* a call of node.set_state(inventory, backorders, remaining_time, category)
SetStateCall ==
  \E inventory \in {-1, 0, node.capacity, node.capacity + 1},
     backorders \in {-1, 0, MaxBack},
     remaining_time \in {-1, 0, 1, MaxTime}, category \in StateCategory :
    /\ node' = SetState(node, inventory, backorders, remaining_time, category)
    /\ lastOp' = "set_state"
    /\ lastArg' = <<inventory, backorders, remaining_time, category>>
    /\ outcome' = IF SetStateValid(node, inventory, backorders, remaining_time)
                  THEN "ok" ELSE "AssertionError"
    /\ cost' = 0
    /\ hist' = IF SetStateValid(node, inventory, backorders, remaining_time)
               THEN StartHist(remaining_time, category) ELSE hist
    /\ UNCHANGED <<policyVars, episodeVars>>

NodeNext == Event \/ Action \/ SetStateCall

Spec == NodeInit /\ [][NodeNext]_vars

(***************************************************************************)
(* The policy specification                                                *)
(***************************************************************************)
NodeIdle ==
  /\ node = [capacity |-> 1, inventory |-> 0, backorders |-> 0,
             remaining_time |-> 0, category |-> FINAL]
  /\ lastOp = "init" /\ lastArg = <<>> /\ outcome = "ok" /\ cost = 0
  /\ hist = NoHist

PolicyInit ==
  /\ NodeIdle /\ EpisodeIdle
  /\ pcase \in PolicyCases
  /\ decision = NotCalled

\* a call of policy.decide_order_quantity(pending_orders)
Decide(kind) ==
  /\ ~decision.called
  /\ pcase.policy.kind = kind
  /\ decision' = [called |-> TRUE,
                  q |-> DecideOrderQuantity(pcase.node, pcase.policy, pcase.pending)]
  /\ UNCHANGED <<pcase, nodeVars, episodeVars>>

DecideBaseStock == Decide("BaseStock")
DecideMinMax == Decide("MinMax")
DecideFixedOrder == Decide("FixedOrder")

PolicyNext == DecideBaseStock \/ DecideMinMax \/ DecideFixedOrder

SpecPolicy == PolicyInit /\ [][PolicyNext]_vars

(***************************************************************************)
(* main.py: simulate_episode                                               *)
(***************************************************************************)
RAW == "Raw Material"
SUB == "SubAssembly"

\* the network: raw-material nodes first, then the sub-assembly (main.py:254)
RawIds == {1, 2}
SubId == Cardinality(RawIds) + 1

RECURSIVE AdvanceTime(_), AdvanceTime_TestAfterZero(_)
AdvanceTime_TestAfterZero(pending) ==
  IF pending = <<>> THEN [arrived |-> 0, new_pending |-> <<>>]
  ELSE LET qty == Head(pending)[1]
           lt == Head(pending)[2]
           rest == AdvanceTime_TestAfterZero(Tail(pending))
       IN IF lt <= 0
          THEN [arrived |-> qty + rest.arrived, new_pending |-> rest.new_pending]
          ELSE [arrived |-> rest.arrived,
                new_pending |-> <<<<qty, lt - 1>>>> \o rest.new_pending]

\* advance_time(pending_orders): (arrived, new_pending)
AdvanceTime(pending) ==
  IF pending = <<>> THEN [arrived |-> 0, new_pending |-> <<>>]
  ELSE LET qty == Head(pending)[1]
           lt == Head(pending)[2]
           rest == AdvanceTime(Tail(pending))
       IN IF lt <= 1
          THEN [arrived |-> qty + rest.arrived, new_pending |-> rest.new_pending]
          ELSE [arrived |-> rest.arrived,
                new_pending |-> <<<<qty, lt - 1>>>> \o rest.new_pending]

RECURSIVE KeptMeta(_, _)
\* the bookkeeping of the orders advance_time keeps in the queue
KeptMeta(pending, meta) ==
  IF pending = <<>> THEN <<>>
  ELSE IF Len(AdvanceTime(<<Head(pending)>>).new_pending) = 0
       THEN KeptMeta(Tail(pending), Tail(meta))
       ELSE <<Head(meta)>> \o KeptMeta(Tail(pending), Tail(meta))

RECURSIVE ArrivedMeta(_, _)
\* the orders advance_time counts as arrived, with their bookkeeping
ArrivedMeta(pending, meta) ==
  IF pending = <<>> THEN <<>>
  ELSE IF Len(AdvanceTime(<<Head(pending)>>).new_pending) = 0
       THEN <<[qty |-> Head(pending)[1], placed |-> Head(meta).placed,
               L |-> Head(meta).L]>> \o ArrivedMeta(Tail(pending), Tail(meta))
       ELSE ArrivedMeta(Tail(pending), Tail(meta))

\* sub_node = next((n for n in nodes if n.type == "SubAssembly"), None)
HasSub(ns) == \E id \in DOMAIN ns : ns[id].type = SUB
\* raw_nodes = [n for n in nodes if n.type == "Raw Material"], in list order
RawNodes(ns) == { id \in DOMAIN ns : ns[id].type = RAW }
\* the node sub_node refers to
SubOf(ns) == CHOOSE id \in DOMAIN ns : ns[id].type = SUB
FirstRaw(ns) == CHOOSE id \in RawNodes(ns) : \A o \in RawNodes(ns) : id <= o
LastRaw(ns) == CHOOSE id \in RawNodes(ns) : \A o \in RawNodes(ns) : id >= o

\* step 1: every node is credited the orders that arrive
ArrivedNodes(ns, orders) ==
  [id \in DOMAIN ns |->
     [ns[id] EXCEPT !.inventory = @ + AdvanceTime(orders[id]).arrived]]

\* step 2: part_demand, and what each raw node supplies
PartDemand(fd, i) == fd * cfg.requirement[i]
Supplied(ns, fd, i) == Min(PartDemand(fd, i), ns[i].inventory)

RECURSIVE MinOver(_, _)
\* min(f[i] for i in S) for a non-empty set S
MinOver(f, S) ==
  LET i == CHOOSE x \in S : TRUE
  IN IF S = {i} THEN f[i] ELSE Min(f[i], MinOver(f, S \ {i}))

AssembliesPossible_NoDivision(ns, fd) ==
  MinOver([i \in RawNodes(ns) |-> Supplied(ns, fd, i)], RawNodes(ns))

\* assemblies_possible = min(received_parts[i] // assembly_requirement[i])
AssembliesPossible(ns, fd) ==
  MinOver([i \in RawNodes(ns) |-> Supplied(ns, fd, i) \div cfg.requirement[i]],
          RawNodes(ns))

Produced_InventoryFirst(ns, fd) ==
  LET possible == AssembliesPossible(ns, fd)
  IN [id \in DOMAIN ns |->
        IF ns[id].type = RAW
        THEN [ns[id] EXCEPT
                !.inventory = @ - Supplied(ns, fd, id),
                !.backorders = @ + (PartDemand(fd, id) - Supplied(ns, fd, id))]
        ELSE [ns[id] EXCEPT !.inventory = @ + possible]]

\* step 2: the nodes after production for final demand fd
Produced(ns, fd) ==
  LET possible == AssembliesPossible(ns, fd)
      fulfilled == Min(ns[SubOf(ns)].backorders, possible)
  IN [id \in DOMAIN ns |->
        IF ns[id].type = RAW
        THEN [ns[id] EXCEPT
                !.inventory = @ - Supplied(ns, fd, id),
                !.backorders = @ + (PartDemand(fd, id) - Supplied(ns, fd, id))]
        ELSE [ns[id] EXCEPT
                !.backorders = @ - fulfilled,
                !.inventory = @ + (possible - fulfilled)]]

Fulfilled_InventoryNotZeroed(n, total_demand) ==
  LET fulfill == Min(n.inventory, n.backorders)
      inv == n.inventory - fulfill
      back == n.backorders - fulfill
  IN IF total_demand <= inv
     THEN [n EXCEPT !.inventory = inv - total_demand, !.backorders = back]
     ELSE [n EXCEPT !.inventory = inv,
                    !.backorders = back + (total_demand - inv)]

Fulfilled_BackordersKept(n, total_demand) ==
  IF total_demand <= n.inventory
  THEN [n EXCEPT !.inventory = @ - total_demand]
  ELSE [n EXCEPT !.inventory = 0,
                 !.backorders = @ + (total_demand - n.inventory)]

\* step 3: a raw node after backorders and then total_demand were served
Fulfilled(n, total_demand) ==
  LET fulfill == Min(n.inventory, n.backorders)
      inv == n.inventory - fulfill
      back == n.backorders - fulfill
  IN IF total_demand <= inv
     THEN [n EXCEPT !.inventory = inv - total_demand, !.backorders = back]
     ELSE [n EXCEPT !.inventory = 0,
                    !.backorders = back + (total_demand - inv)]

\* the first four arguments of Node(...) in an episode of the given horizon
EpisodeNode(type, capacity, inventory, backorders, horizon) ==
  [type |-> type, capacity |-> capacity, inventory |-> inventory,
   backorders |-> backorders, remaining_time |-> horizon,
   category |-> AWAIT_EVENT]

\* the policies bound to the raw nodes of the simulated network
EpisodePolicies ==
  { [kind |-> "BaseStock", target_inventory |-> EpCap, safety_stock |-> 1],
    [kind |-> "MinMax", min_inventory |-> 1, max_inventory |-> EpCap],
    [kind |-> "FixedOrder", order_quantity |-> 1] }

Requirements == { <<1, 1>>, <<2, 1>> }

\* the policy assignments tried: every variant at either raw node
PolicyAssignments ==
  LET P(k) == CHOOSE p \in EpisodePolicies : p.kind = k
  IN { <<P("BaseStock"), P("MinMax")>>, <<P("MinMax"), P("FixedOrder")>>,
       <<P("FixedOrder"), P("BaseStock")>> }

\* the small networks: two raw nodes, with or without a sub-assembly
SmallEpisodes ==
  { [cfg |-> [horizon |-> Horizon, requirement |-> req, policy |-> pol,
              final_demands |-> {0, MaxFinalDemand},
              external_demands |-> {0, MaxExternal}],
     nodes |-> [id \in RawIds \cup (IF has_sub THEN {SubId} ELSE {}) |->
                  IF id \in RawIds
                  THEN EpisodeNode(RAW, EpCap, EpCap, IF id = 1 THEN 1 ELSE 0,
                                   Horizon)
                  ELSE EpisodeNode(SUB, EpCap, EpCap - 1, 1, Horizon)]] :
      req \in Requirements, pol \in PolicyAssignments, has_sub \in BOOLEAN }

\* the worked production example, with the capacities, policies and
\* sub-assembly of main(): requirement [2, 1, 3], raw inventories 100, final
\* demand 10, one period
ExampleEpisode ==
  [cfg |-> [horizon |-> 1, requirement |-> <<2, 1, 3>>,
            policy |-> <<[kind |-> "BaseStock", target_inventory |-> 60,
                          safety_stock |-> 15],
                         [kind |-> "MinMax", min_inventory |-> 20,
                          max_inventory |-> 80],
                         [kind |-> "FixedOrder", order_quantity |-> 30]>>,
            final_demands |-> {10}, external_demands |-> {0}],
   nodes |-> <<EpisodeNode(RAW, 100, 100, 0, 1), EpisodeNode(RAW, 150, 100, 0, 1),
               EpisodeNode(RAW, 200, 100, 0, 1), EpisodeNode(SUB, 250, 150, 20, 1)>>]

EpisodeInit ==
  /\ NodeIdle /\ PolicyIdle
  /\ \E e \in SmallEpisodes \cup {ExampleEpisode} :
       /\ cfg = e.cfg
       /\ nodes = e.nodes
  /\ node_orders = [id \in DOMAIN nodes |-> <<>>]
  /\ t = 0
  /\ pc = IF cfg.horizon > 0 THEN "arrive" ELSE "done"
  /\ cur = 0
  /\ final_demand = Unbound
  /\ err = NoError
  /\ order_meta = [id \in DOMAIN nodes |-> <<>>]
  /\ credited = NoneCredited

\* lines 53-56: orders arrive
Arrive ==
  /\ pc = "arrive"
  /\ nodes' = ArrivedNodes(nodes, node_orders)
  /\ node_orders' = [id \in DOMAIN nodes |-> AdvanceTime(node_orders[id]).new_pending]
  /\ pc' = IF HasSub(nodes) THEN "produce" ELSE "demand"
  /\ cur' = FirstRaw(nodes)
  /\ order_meta' = [id \in DOMAIN nodes |->
                      KeptMeta(node_orders[id], order_meta[id])]
  /\ credited' = [at |-> t,
                  by |-> [id \in DOMAIN nodes |->
                            ArrivedMeta(node_orders[id], order_meta[id])]]
  /\ UNCHANGED <<cfg, t, final_demand, err, nodeVars, policyVars>>

\* lines 61-84: sub-assembly demand and production
Produce ==
  /\ pc = "produce"
  /\ \E fd \in cfg.final_demands :
       /\ final_demand' = <<fd>>
       /\ nodes' = Produced(nodes, fd)
  /\ pc' = "demand"
  /\ credited' = NoneCredited
  /\ UNCHANGED <<cfg, node_orders, t, cur, err, order_meta, nodeVars, policyVars>>

\* line 100 without a sub-assembly: final_demand was never assigned
DemandUnbound ==
  /\ pc = "demand"
  /\ final_demand = Unbound
  /\ pc' = "error"
  /\ err' = "NameError"
  /\ credited' = NoneCredited
  /\ UNCHANGED <<cfg, nodes, node_orders, t, cur, final_demand, order_meta,
                 nodeVars, policyVars>>

\* lines 100-116: demand of raw node cur and its fulfilment
Demand ==
  /\ pc = "demand"
  /\ final_demand # Unbound
  /\ \E external_demand \in cfg.external_demands :
       LET demand_from_sub == final_demand[1] * cfg.requirement[cur]
           total_demand == demand_from_sub + external_demand
       IN nodes' = [nodes EXCEPT ![cur] = Fulfilled(nodes[cur], total_demand)]
  /\ pc' = "order"
  /\ credited' = NoneCredited
  /\ UNCHANGED <<cfg, node_orders, t, cur, final_demand, err, order_meta,
                 nodeVars, policyVars>>

Order_AnyQuantity ==
  /\ pc = "order"
  /\ \E order_quantity \in 0..nodes[cur].capacity :
       IF order_quantity > 0
       THEN \E lead_time \in 1..MaxLeadTime :
              /\ node_orders' = [node_orders EXCEPT
                                   ![cur] = Append(@, <<order_quantity, lead_time>>)]
              /\ order_meta' = [order_meta EXCEPT
                                  ![cur] = Append(@, [placed |-> t, L |-> lead_time])]
       ELSE UNCHANGED <<node_orders, order_meta>>
  /\ pc' = "update"
  /\ UNCHANGED <<cfg, nodes, t, cur, final_demand, err, credited,
                 nodeVars, policyVars>>

\* lines 124-131: the ordering decision of raw node cur
Order ==
  /\ pc = "order"
  /\ LET order_quantity ==
           DecideOrderQuantity(nodes[cur], cfg.policy[cur], node_orders[cur])
     IN IF order_quantity > 0
        THEN \E lead_time \in 1..MaxLeadTime :
               /\ node_orders' = [node_orders EXCEPT
                                    ![cur] = Append(@, <<order_quantity, lead_time>>)]
               /\ order_meta' = [order_meta EXCEPT
                                   ![cur] = Append(@, [placed |-> t, L |-> lead_time])]
        ELSE UNCHANGED <<node_orders, order_meta>>
  /\ pc' = "update"
  /\ UNCHANGED <<cfg, nodes, t, cur, final_demand, err, credited,
                 nodeVars, policyVars>>

\* where the loops go after raw node cur: the next raw node, the next period
\* or the end of the episode
AfterUpdate ==
  IF cur # LastRaw(nodes)
  THEN /\ cur' = CHOOSE id \in RawNodes(nodes) :
                   id > cur /\ \A o \in RawNodes(nodes) : o > cur => id <= o
       /\ pc' = "demand"
       /\ t' = t
  ELSE /\ cur' = cur
       /\ t' = t + 1
       /\ pc' = IF t + 1 < cfg.horizon THEN "arrive" ELSE "done"

\* lines 134-146: set_state of raw node cur, accepted
Update ==
  /\ pc = "update"
  /\ LET remaining_time == cfg.horizon - t - 1
         category == IF remaining_time > 0 THEN AWAIT_EVENT ELSE FINAL
         n == nodes[cur]
     IN /\ SetStateValid(n, n.inventory, n.backorders, remaining_time)
        /\ nodes' = [nodes EXCEPT ![cur] =
                       SetState(n, n.inventory, n.backorders, remaining_time, category)]
  /\ AfterUpdate
  /\ UNCHANGED <<cfg, node_orders, final_demand, err, order_meta, credited,
                 nodeVars, policyVars>>

\* lines 141-146: set_state of raw node cur fails an assertion
UpdateFails ==
  /\ pc = "update"
  /\ LET n == nodes[cur]
     IN ~SetStateValid(n, n.inventory, n.backorders, cfg.horizon - t - 1)
  /\ pc' = "error"
  /\ err' = "AssertionError"
  /\ UNCHANGED <<cfg, nodes, node_orders, t, cur, final_demand, order_meta,
                 credited, nodeVars, policyVars>>

EpisodeNext ==
  Arrive \/ Produce \/ DemandUnbound \/ Demand \/ Order \/ Update \/ UpdateFails

SpecEpisode == EpisodeInit /\ [][EpisodeNext]_vars

(***************************************************************************)
(* Properties of the node state machine                                    *)
(***************************************************************************)

\* C1: after every transition of a validly constructed node, inventory is
\* within [0, capacity] and backorders are not negative.
C1_NodeBounds ==
  /\ 0 <= node.inventory /\ node.inventory <= node.capacity
  /\ node.backorders >= 0

\* an event whose demand exceeded the stock, and an action that hit capacity
C1_Witness ==
  \/ /\ lastOp = "event" /\ outcome = "ok"
     /\ node.inventory = 0 /\ node.backorders > 0
  \/ /\ lastOp = "action" /\ outcome = "ok"
     /\ node.inventory = node.capacity /\ cost < lastArg[1]

\* C3: an event with demand d in AWAIT_EVENT fulfils min(d, inventory), adds
\* the rest to backorders, decrements remaining_time by one and moves to FINAL
\* if remaining_time reached 0 and to AWAIT_ACTION otherwise; in any other
\* category the call fails.
C3_EventContract ==
  [][lastOp' = "event" =>
       LET d == lastArg'[1]
           f == IF d <= node.inventory THEN d ELSE node.inventory
       IN IF node.category = AWAIT_EVENT
          THEN /\ outcome' = "ok"
               /\ node'.inventory = node.inventory - f
               /\ node'.backorders = node.backorders + (d - f)
               /\ node'.remaining_time = node.remaining_time - 1
               /\ node'.category =
                    IF node'.remaining_time = 0 THEN FINAL ELSE AWAIT_ACTION
          ELSE outcome' = "AssertionError" /\ node' = node]_nodeVars

\* C4: an action a in AWAIT_ACTION with remaining_time > 0 adds
\* min(a, capacity - inventory) to inventory (nothing when a <= 0), returns
\* unit cost 1 times the quantity received, leaves backorders alone,
\* decrements remaining_time by one and moves to FINAL if remaining_time
\* reached 0 and to AWAIT_EVENT otherwise; otherwise the call fails.
C4_ActionContract ==
  [][lastOp' = "action" =>
       LET a == lastArg'[1]
           room == node.capacity - node.inventory
           q == IF a <= 0 THEN 0 ELSE IF a <= room THEN a ELSE room
       IN IF node.category = AWAIT_ACTION /\ node.remaining_time > 0
          THEN /\ outcome' = "ok"
               /\ node'.inventory = node.inventory + q
               /\ cost' = 1 * q
               /\ node'.backorders = node.backorders
               /\ node'.remaining_time = node.remaining_time - 1
               /\ node'.category =
                    IF node'.remaining_time = 0 THEN FINAL ELSE AWAIT_EVENT
          ELSE outcome' = "AssertionError" /\ node' = node]_nodeVars

\* an order larger than the free capacity was received only in part
C4_Witness ==
  /\ lastOp = "action" /\ outcome = "ok"
  /\ cost > 0 /\ cost < lastArg[1]
  /\ node.inventory = node.capacity

\* C5 (as claimed): once a node is FINAL no later call, set_state included,
\* changes inventory, backorders, remaining_time or category.
C5_FinalImmutable ==
  [][node.category = FINAL => node' = node]_nodeVars

\* C5 (amended): once a node is FINAL every event and every action fails and
\* leaves the node unchanged; only set_state can still change it.
C5_FinalTerminalForTransitions ==
  [][(node.category = FINAL /\ lastOp' \in {"event", "action"}) =>
       (outcome' = "AssertionError" /\ node' = node)]_nodeVars

\* an event or an action was rejected by a FINAL node
C5_Witness ==
  /\ node.category = FINAL
  /\ lastOp \in {"event", "action"}
  /\ outcome = "AssertionError"

\* C6: set_state succeeds exactly when 0 <= inventory <= capacity,
\* backorders >= 0 and remaining_time >= 0, whatever the current category;
\* on success the four fields equal the arguments, on failure none changes.
C6_SetStateContract ==
  [][lastOp' = "set_state" =>
       LET a == lastArg'
           valid == /\ 0 <= a[1] /\ a[1] <= node.capacity
                    /\ a[2] >= 0
                    /\ a[3] >= 0
       IN /\ (outcome' = "ok") <=> valid
          /\ outcome' \in {"ok", "AssertionError"}
          /\ valid => /\ node'.inventory = a[1]
                      /\ node'.backorders = a[2]
                      /\ node'.remaining_time = a[3]
                      /\ node'.category = a[4]
                      /\ node'.capacity = node.capacity
          /\ ~valid => node' = node]_nodeVars

\* a successful overwrite at the edge of the accepted range
C6_Witness ==
  /\ lastOp = "set_state" /\ outcome = "ok"
  /\ node.inventory = node.capacity /\ node.remaining_time = 0
  /\ node.category = AWAIT_ACTION

\* C7: from AWAIT_EVENT with remaining_time = n >= 1 the successful events and
\* actions alternate, starting with an event; the category follows from
\* remaining_time alone; FINAL is reached with remaining_time 0 after exactly n
\* successful operations, and none succeeds after that.
C7_Alternation ==
  hist.valid =>
    /\ hist.ops <= hist.n
    /\ node.remaining_time = hist.n - hist.ops
    /\ node.category = IF node.remaining_time = 0 THEN FINAL
                       ELSE IF hist.ops % 2 = 0 THEN AWAIT_EVENT
                       ELSE AWAIT_ACTION
    /\ (node.category = FINAL) <=> (hist.ops = hist.n)
    /\ hist.ops > 0 =>
         hist.last = IF hist.ops % 2 = 1 THEN "event" ELSE "action"

\* a horizon of at least three was run to its end and a later call rejected
C7_Witness ==
  /\ hist.valid /\ hist.n >= 3 /\ hist.ops = hist.n
  /\ node.category = FINAL /\ node.remaining_time = 0
  /\ outcome = "AssertionError"

(***************************************************************************)
(* Properties of the policies                                              *)
(***************************************************************************)
Called(kind) == decision.called /\ pcase.policy.kind = kind
IP == pcase.node.inventory + SumQty(pcase.pending)

\* C8: whatever the policy, the parameters, the node state and the pending
\* queue, decide_order_quantity returns q with
\* 0 <= q <= max(0, capacity - inventory - sum of pending quantities).
C8_WithinRemainingCapacity ==
  decision.called =>
    LET room == pcase.node.capacity - IP
    IN /\ 0 <= decision.q
       /\ decision.q <= (IF room > 0 THEN room ELSE 0)

\* C9: base-stock returns max(0, (target_inventory + safety_stock) - IP),
\* reduced to the node's available capacity (capacity - inventory) when that
\* is smaller; 0 whenever IP is at or above the base-stock level; and 20 for
\* inventory=40, target=50, safety_stock=10, capacity=100, pending=[].
C9_BaseStock ==
  Called("BaseStock") =>
    LET level == pcase.policy.target_inventory + pcase.policy.safety_stock
        want == IF level > IP THEN level - IP ELSE 0
        room == pcase.node.capacity - pcase.node.inventory
    IN /\ decision.q = (IF want <= room THEN want ELSE room)
       /\ IP >= level => decision.q = 0
       /\ pcase = ExampleBaseStock => decision.q = 20

\* the worked example has been decided
C9_Witness == Called("BaseStock") /\ pcase = ExampleBaseStock /\ decision.q = 20

\* C10: min-max returns 0 when IP >= max_inventory, 0 when
\* min_inventory <= IP < max_inventory, and otherwise max_inventory - IP capped
\* by the capacity left (capacity - IP); 65 for inventory=15, min=20, max=80,
\* capacity=100, pending=[] and 0 for inventory=50.
C10_MinMax ==
  Called("MinMax") =>
    LET lo == pcase.policy.min_inventory
        hi == pcase.policy.max_inventory
        upto == hi - IP
        room == pcase.node.capacity - IP
    IN /\ IP >= hi => decision.q = 0
       /\ (lo <= IP /\ IP < hi) => decision.q = 0
       /\ (IP < lo /\ IP < hi) =>
            decision.q = (IF upto <= room THEN upto ELSE room)
       /\ pcase = ExampleMinMaxBelow => decision.q = 65
       /\ pcase = ExampleMinMaxInside => decision.q = 0

\* the worked example below the band has been decided
C10_Witness ==
  Called("MinMax") /\ pcase = ExampleMinMaxBelow /\ decision.q = 65

\* C11: fixed-order always returns
\* min(order_quantity, max(0, capacity - inventory - total pending quantity));
\* 5 for inventory=90, capacity=100, order_quantity=30, pending=[(5,2)].
C11_FixedOrder ==
  Called("FixedOrder") =>
    LET room == pcase.node.capacity - IP
        free == IF room > 0 THEN room ELSE 0
        oq == pcase.policy.order_quantity
    IN /\ decision.q = (IF oq <= free THEN oq ELSE free)
       /\ pcase = ExampleFixedOrder => decision.q = 5

\* the worked example has been decided: the order is cut to the 5 units left
C11_Witness ==
  Called("FixedOrder") /\ pcase = ExampleFixedOrder /\ decision.q = 5

(***************************************************************************)
(* Properties of the episode simulator                                     *)
(***************************************************************************)

\* C2: during simulate_episode, from valid initial node states, every node
\* (raw-material and sub-assembly) satisfies 0 <= inventory <= capacity and
\* backorders >= 0 at every point of every period, and set_state never fails.
C2_EpisodeCapacityBound ==
  /\ \A id \in DOMAIN nodes :
       /\ 0 <= nodes[id].inventory
       /\ nodes[id].inventory <= nodes[id].capacity
       /\ nodes[id].backorders >= 0
  /\ err # "AssertionError"

\* the period of the latest arrival step (-1 before the first)
LastArrival == IF pc \in {"arrive", "done"} THEN t - 1 ELSE t

RECURSIVE DueQty(_, _, _)
\* total quantity of the queued orders whose placement period plus lead time is p
DueQty(pending, meta, p) ==
  IF pending = <<>> THEN 0
  ELSE (IF Head(meta).placed + Head(meta).L = p THEN Head(pending)[1] ELSE 0)
       + DueQty(Tail(pending), Tail(meta), p)

RECURSIVE NotDue(_, _, _)
\* the queued orders not due in period p, one period closer to arrival
NotDue(pending, meta, p) ==
  IF pending = <<>> THEN <<>>
  ELSE (IF Head(meta).placed + Head(meta).L = p THEN <<>>
        ELSE <<<<Head(pending)[1], Head(pending)[2] - 1>>>>)
       \o NotDue(Tail(pending), Tail(meta), p)

\* every queued order has a positive quantity and a lead time L >= 1, and its
\* remaining lead time has gone down by one per arrival step since placement
C12_QueueInv ==
  \A id \in DOMAIN nodes :
    /\ Len(order_meta[id]) = Len(node_orders[id])
    /\ \A k \in 1..Len(node_orders[id]) :
         LET o == node_orders[id][k]
             m == order_meta[id][k]
         IN /\ o[1] > 0
            /\ m.L >= 1
            /\ o[2] >= 1
            /\ o[2] = m.placed + m.L - LastArrival

\* C12: an order enters a queue only with a positive decided quantity and a
\* lead time L >= 1; placed in period t it is credited to its node exactly
\* once, in the arrival step of period t+L and in none before, and leaves the
\* queue then; orders with t+L beyond the horizon are never credited; the lead
\* time goes down by exactly one per period.
C12_OrderLifecycle ==
  /\ [](C12_QueueInv)
  /\ [][/\ pc = "arrive" =>
             \A id \in DOMAIN nodes :
               /\ nodes'[id].inventory = nodes[id].inventory
                    + DueQty(node_orders[id], order_meta[id], t)
               /\ node_orders'[id] = NotDue(node_orders[id], order_meta[id], t)
        /\ pc = "order" =>
             LET q == DecideOrderQuantity(nodes[cur], cfg.policy[cur],
                                          node_orders[cur])
             IN /\ \A id \in DOMAIN nodes \ {cur} :
                     node_orders'[id] = node_orders[id]
                /\ q <= 0 => node_orders'[cur] = node_orders[cur]
                /\ q > 0 => /\ Len(node_orders'[cur]) = Len(node_orders[cur]) + 1
                            /\ SubSeq(node_orders'[cur], 1, Len(node_orders[cur]))
                                 = node_orders[cur]
                            /\ node_orders'[cur][Len(node_orders'[cur])][1] = q
        /\ pc \notin {"arrive", "order"} =>
             /\ node_orders' = node_orders
             /\ \A id \in RawNodes(nodes) :
                  nodes'[id].inventory <= nodes[id].inventory]_vars

\* an order placed in period 0 with lead time 2 has just been credited in the
\* arrival step of period 2
C12_Witness ==
  \E id \in DOMAIN credited.by :
    \E k \in 1..Len(credited.by[id]) :
      /\ credited.by[id][k].placed = 0
      /\ credited.by[id][k].L = 2
      /\ credited.at = 2

\* C13: for final demand D each raw node i is asked D*r[i], supplies
\* min(D*r[i], inventory), loses what it supplied and gains the shortfall as
\* backorders; producible = min over i of supplied_i div r[i]; when every raw
\* inventory covers its request producible = D, all requested parts are
\* consumed and no raw backorder is added; requirement [2,1,3], inventories
\* 100 and D = 10 give requested [20,10,30] and producible 10.
C13_Production ==
  [][pc = "produce" =>
       LET D == final_demand'[1]
           r == cfg.requirement
           raws == RawNodes(nodes)
           sub == SubOf(nodes)
           asked(i) == D * r[i]
           sup(i) == IF asked(i) <= nodes[i].inventory THEN asked(i)
                     ELSE nodes[i].inventory
           produced == (nodes'[sub].inventory - nodes[sub].inventory)
                       + (nodes[sub].backorders - nodes'[sub].backorders)
           covered == \A i \in raws : nodes[i].inventory >= asked(i)
       IN /\ \A i \in raws :
               /\ nodes'[i].inventory = nodes[i].inventory - sup(i)
               /\ nodes'[i].backorders = nodes[i].backorders + (asked(i) - sup(i))
          /\ \E i \in raws : produced = sup(i) \div r[i]
          /\ \A i \in raws : produced <= sup(i) \div r[i]
          /\ covered =>
               /\ produced = D
               /\ \A i \in raws :
                    /\ nodes'[i].inventory = nodes[i].inventory - asked(i)
                    /\ nodes'[i].backorders = nodes[i].backorders
          /\ (cfg = ExampleEpisode.cfg /\ nodes = ExampleEpisode.nodes) =>
               /\ D = 10
               /\ <<asked(1), asked(2), asked(3)>> = <<20, 10, 30>>
               /\ produced = 10]_vars

\* the worked example after its production step: 20, 10 and 30 parts were
\* consumed and the 10 assemblies went to the 20 backorders
C13_Witness ==
  /\ cfg = ExampleEpisode.cfg /\ pc = "demand" /\ final_demand = <<10>>
  /\ <<nodes[1].inventory, nodes[2].inventory, nodes[3].inventory>>
       = <<80, 90, 70>>
  /\ \A i \in 1..3 : nodes[i].backorders = 0
  /\ nodes[4].backorders = 10 /\ nodes[4].inventory = 150

\* the assemblies the raw nodes' supply allows for final demand D
UnitsProduced(D) ==
  LET q(i) == Min(D * cfg.requirement[i], nodes[i].inventory)
                \div cfg.requirement[i]
  IN CHOOSE p \in {q(i) : i \in RawNodes(nodes)} :
       \A i \in RawNodes(nodes) : p <= q(i)

\* C14: with P units produced and B sub-assembly backorders before, the
\* backorders become B - min(B, P) and the inventory grows by P - min(B, P);
\* the inventory never grows from production while backorders remain.
C14_BackordersFirst ==
  [][pc = "produce" =>
       LET sub == SubOf(nodes)
           P == UnitsProduced(final_demand'[1])
           B == nodes[sub].backorders
       IN /\ nodes'[sub].backorders = B - Min(B, P)
          /\ nodes'[sub].inventory = nodes[sub].inventory + P - Min(B, P)
          /\ nodes'[sub].inventory > nodes[sub].inventory
               => nodes'[sub].backorders = 0]_vars

\* a production step has cleared the sub-assembly's backorders and a later
\* one has added to its inventory
C14_Witness ==
  /\ pc = "demand" /\ HasSub(nodes) /\ cfg.horizon = Horizon
  /\ nodes[SubId].backorders = 0
  /\ nodes[SubId].inventory > EpCap - 1

\* C15: after step 2 the sub-assembly has served the final demand D of the
\* period (and what it already owed) from the units available, its inventory
\* plus the P units produced, and carries the unserved rest as backorders.
C15_FinalDemandServed ==
  [][pc = "produce" =>
       LET sub == SubOf(nodes)
           D == final_demand'[1]
           available == nodes[sub].inventory + UnitsProduced(D)
           owed == nodes[sub].backorders + D
           served == Min(available, owed)
       IN /\ nodes'[sub].inventory = available - served
          /\ nodes'[sub].backorders = owed - served]_vars

\* C16: in step 3 a raw node with inventory I, backorders B and total demand
\* T first serves f = min(I, B) of its backorders, then s = min(T, I - f) of
\* the new demand: inventory I - f - s, backorders B - f + T - s; no demand
\* is dropped and the inventory does not go negative.
C16_RawFulfilment ==
  [][(pc = "demand" /\ final_demand # Unbound) =>
       \E external_demand \in cfg.external_demands :
         LET T == final_demand[1] * cfg.requirement[cur] + external_demand
             I == nodes[cur].inventory
             B == nodes[cur].backorders
             f == Min(I, B)
             s == Min(T, I - f)
         IN /\ nodes'[cur].inventory = I - f - s
            /\ nodes'[cur].backorders = B - f + T - s
            /\ nodes'[cur].inventory >= 0
            /\ nodes'[cur].inventory - nodes'[cur].backorders = I - B - T
            /\ \A id \in DOMAIN nodes \ {cur} : nodes'[id] = nodes[id]]_vars

\* raw node 1 has served its backorder and then its external demand in
\* period 0
C16_Witness ==
  /\ pc = "order" /\ cur = 1 /\ t = 0 /\ cfg.horizon = Horizon
  /\ final_demand = <<0>>
  /\ nodes[1].backorders = 0
  /\ nodes[1].inventory = EpCap - 1 - MaxExternal

\* C17: at the end of every period every node, raw or sub-assembly, has
\* remaining_time = H - t - 1 and category AWAIT_EVENT if that is positive,
\* FINAL otherwise; after the last period every node is FINAL with
\* remaining_time 0.  (At a period boundary t already counts the period that
\* ended.)
C17_ClockOfEveryNode ==
  (pc \in {"arrive", "done"} /\ t > 0) =>
    \A id \in DOMAIN nodes :
      /\ nodes[id].remaining_time = cfg.horizon - t
      /\ nodes[id].category =
           IF cfg.horizon - t > 0 THEN AWAIT_EVENT ELSE FINAL

\* C18: within a period all supply resolution precedes all ordering
\* decisions: when the fulfilment of some node is still to be computed in
\* period t, no node has placed an order in period t.
C18_SupplyBeforeOrders ==
  pc \in {"produce", "demand"} =>
    \A id \in DOMAIN nodes :
      \A k \in 1..Len(order_meta[id]) : order_meta[id][k].placed # t

\* the random draws of a step, read off the step: the final demand drawn in
\* step 2, the external demand a raw node was charged, the lead time of the
\* order it placed
DrawnFinalDemand == final_demand'[1]
DrawnExternal ==
  (nodes[cur].inventory - nodes[cur].backorders)
    - (nodes'[cur].inventory - nodes'[cur].backorders)
    - final_demand[1] * cfg.requirement[cur]
DrawnLeadTime ==
  IF node_orders'[cur] = <<>> THEN 0
  ELSE node_orders'[cur][Len(node_orders'[cur])][2]

C20_RemainingTimeNonNegative == node.remaining_time >= 0

\* C21: in a network without a sub-assembly node simulate_episode skips
\* step 2 and runs all its periods without error.
C21_RunsWithoutSubAssembly == ~HasSub(nodes) => pc # "error"

\* a raw node holds stock while it owes backorders
Both(n) == n.inventory > 0 /\ n.backorders > 0

\* C22: when set_state is called at the end of a raw node's period, and at
\* the end of the period for every raw node, the node does not have both
\* inventory > 0 and backorders > 0.
C22_NotBothPositive ==
  /\ pc \in {"order", "update"} => ~Both(nodes[cur])
  /\ (pc \in {"arrive", "done"} /\ t > 0) =>
       \A id \in RawNodes(nodes) : ~Both(nodes[id])

\* raw node 1, which started with stock and a backorder, has ended period 0
\* with no stock and backorders left over, and its state was updated
C22_Witness ==
  /\ t = 0 /\ pc = "demand" /\ cur = 2 /\ cfg.horizon = Horizon
  /\ nodes[1].remaining_time = Horizon - 1
  /\ nodes[1].inventory = 0 /\ nodes[1].backorders > 0
  /\ Both([inventory |-> EpCap, backorders |-> 1])

====
